---- MODULE Spec2Model ----
(***************************************************************************)
(* EmbedYAML: the Node document model (include/EmbedYAML/Node.hpp) and the *)
(* tree/text bridge (src/EmbedYAML.cpp): the builder that consumes the     *)
(* libyaml event stream and the emitter that renders a Node as block text. *)
(*                                                                         *)
(* Text (std::string) is a sequence of one-character strings, so that the  *)
(* conversions std::to_string / std::from_chars and the emitter's          *)
(* concatenations are computed character by character.                     *)
(***************************************************************************)
EXTENDS Integers, Sequences, FiniteSets

VARIABLES
    root,      \* the caller's document tree (a Node value)
    ref,       \* the Node& the caller holds: a path of child positions from root
    last,      \* the last public operation, its argument and what it returned
    parser,    \* the activation of EmbedYAML::parse: position, open containers, local root
    consumed,  \* the events yaml_parser_parse has handed out so far, in order
    assigned,  \* history: the last assignment made through a map-index reference
    chain,     \* history: the values appended, in order, to a sequence that was empty
    moved      \* the caller's Node just passed to emplace_back, as the call left it

vars == <<root, ref, last, parser, consumed, assigned, chain, moved>>

(***************************************************************************)
(* Bounds of the exploration.                                              *)
(***************************************************************************)
\* largest number of nodes of a tree built by the caller or by parse
MaxNodes == 3
\* largest number of events one parse pulls from the lexer
MaxEvents == 10
\* longest text handed to the numeric conversion
MaxTextLen == 3

(***************************************************************************)
(* The integer type of as<int>() / operator=(int).                         *)
(***************************************************************************)
IntMax == 2147483647
IntMin == -IntMax - 1

Digits == <<"0", "1", "2", "3", "4", "5", "6", "7", "8", "9">>

IsDigit(c) == \E i \in 1..10 : Digits[i] = c

DigitVal(c) == (CHOOSE i \in 1..10 : Digits[i] = c) - 1

(***************************************************************************)
(* std::to_string(int): "%d", a minus sign for negative values followed by *)
(* the decimal digits of the magnitude, no leading zeros.                  *)
(***************************************************************************)
RECURSIVE Magnitude(_)
Magnitude(m) ==
    IF m < 10 THEN <<Digits[m + 1]>>
    ELSE Magnitude(m \div 10) \o <<Digits[(m % 10) + 1]>>

\* the digits of -v for v < 0, computed without negating v (IntMin has no negation)
NegMagnitude(v) ==
    LET low  == (10 - (v % 10)) % 10          \* last digit of |v|
        rest == -((v + low) \div 10)          \* |v| without its last digit
    IN  IF rest = 0 THEN <<Digits[low + 1]>>
        ELSE Magnitude(rest) \o <<Digits[low + 1]>>

\* to_string with the sign lost
to_string_unsigned(v) ==
    IF v < 0 THEN NegMagnitude(v) ELSE Magnitude(v)

to_string(v) ==
    IF v < 0 THEN <<"-">> \o NegMagnitude(v) ELSE Magnitude(v)

(***************************************************************************)
(* std::from_chars(first, last, int& result), base 10: an optional '-',    *)
(* then the longest run of digits.  No digit: invalid_argument.  A value   *)
(* outside [IntMin, IntMax]: result_out_of_range.  Otherwise errc() with   *)
(* the value; ptr is the position after the digits that were consumed.     *)
(* The value is accumulated as a negative number so that IntMin fits.      *)
(***************************************************************************)
RECURSIVE DigitRun(_, _)
DigitRun(s, i) ==
    IF i <= Len(s) /\ IsDigit(s[i]) THEN 1 + DigitRun(s, i + 1) ELSE 0

\* acc is -(value of the digits read so far); "range" once it would pass limit
RECURSIVE Accumulate(_, _, _, _, _)
Accumulate(s, i, n, acc, limit) ==
    IF n = 0 THEN [inRange |-> TRUE, neg |-> acc]
    ELSE LET d == DigitVal(s[i])
         IN  IF acc < (limit + d + 9) \div 10
             THEN [inRange |-> FALSE, neg |-> 0]
             ELSE Accumulate(s, i + 1, n - 1, acc * 10 - d, limit)

from_chars(s) ==
    LET minus == Len(s) >= 1 /\ s[1] = "-"
        first == IF minus THEN 2 ELSE 1
        n     == DigitRun(s, first)
        limit == IF minus THEN IntMin ELSE -IntMax
        a     == Accumulate(s, first, n, 0, limit)
    IN  IF n = 0 THEN [ec |-> "invalid_argument", value |-> 0, ptr |-> 0]
        ELSE IF ~a.inRange
             THEN [ec |-> "result_out_of_range", value |-> 0, ptr |-> first - 1 + n]
             ELSE [ec |-> "ok",
                   value |-> IF minus THEN a.neg ELSE -a.neg,
                   ptr |-> first - 1 + n]

(***************************************************************************)
(* std::from_chars(first, last, double& result), fixed notation: an        *)
(* optional '-', digits, an optional '.' and digits, at least one digit in *)
(* all.  The value is kept as the decimal it denotes: its sign, the whole  *)
(* digits without leading zeros and the fraction digits without trailing   *)
(* zeros.  Exponents, "inf" and "nan" need letters that the explored texts *)
(* do not contain.                                                         *)
(***************************************************************************)
RECURSIVE StripLeadingZeros(_)
StripLeadingZeros(d) ==
    IF d # <<>> /\ Head(d) = "0" THEN StripLeadingZeros(Tail(d)) ELSE d

RECURSIVE StripTrailingZeros(_)
StripTrailingZeros(d) ==
    IF d # <<>> /\ d[Len(d)] = "0" THEN StripTrailingZeros(SubSeq(d, 1, Len(d) - 1)) ELSE d

from_chars_double(s) ==
    LET minus == Len(s) >= 1 /\ s[1] = "-"
        first == IF minus THEN 2 ELSE 1
        whole == DigitRun(s, first)
        dot   == first + whole <= Len(s) /\ s[first + whole] = "."
        frac  == IF dot THEN DigitRun(s, first + whole + 1) ELSE 0
    IN  IF whole + frac = 0
        THEN [ec |-> "invalid_argument", value |-> <<>>, ptr |-> 0]
        ELSE [ec |-> "ok",
              value |-> [neg   |-> minus,
                         whole |-> StripLeadingZeros(SubSeq(s, first, first + whole - 1)),
                         frac  |-> StripTrailingZeros(
                                       SubSeq(s, first + whole + 1, first + whole + frac))],
              ptr |-> first - 1 + whole + (IF dot THEN 1 + frac ELSE 0)]

(***************************************************************************)
(* Node: the kind tag `type` and the std::variant `value`.  `alt` is the   *)
(* alternative the variant holds and `val` its content: no value for       *)
(* Null, the text for Scalar, the children for Sequence, the MapEntry      *)
(* list (key, value) for Map.                                              *)
(***************************************************************************)
NodeTypes == {"Null", "Scalar", "Sequence", "Map"}

\* the constructor without its switch: the variant stays default-constructed
NodeOfNoPayload(t) == [type |-> t, alt |-> "Null", val |-> <<>>]

\* explicit Node(NodeType t); Node() is NodeOf("Null")
NodeOf(t) == [type |-> t, alt |-> t, val |-> <<>>]

isNull(n) == n.type = "Null"
isScalar(n) == n.type = "Scalar"
isSequence(n) == n.type = "Sequence"
isMap(n) == n.type = "Map"

MapEntry(k, v) == [key |-> k, value |-> v]

Ok(v) == [ok |-> TRUE, err |-> "none", value |-> v]
Unexpected(e) == [ok |-> FALSE, err |-> e, value |-> <<>>]

\* as<std::string>()
AsString(n) ==
    IF ~isScalar(n) THEN Unexpected("TypeError") ELSE Ok(n.val)

\* as<int>() without the isScalar() test: the text of a non-scalar reads as empty
AsIntNoKindCheck(n) ==
    LET r == from_chars(IF n.alt = "Scalar" THEN n.val ELSE <<>>)
    IN  IF r.ec # "ok" THEN Unexpected("ScalarConversionError")
        ELSE Ok(r.value)

\* as<int>() that fails on invalid_argument only and hands out the value
\* from_chars left in place otherwise
AsIntZeroOnError(n) ==
    IF ~isScalar(n) THEN Unexpected("TypeError")
    ELSE LET r == from_chars(n.val)
         IN  IF r.ec = "invalid_argument" THEN Unexpected("ScalarConversionError")
             ELSE Ok(r.value)

\* as<int>(): only ec is inspected, ptr is dropped
AsInt(n) ==
    IF ~isScalar(n) THEN Unexpected("TypeError")
    ELSE LET r == from_chars(n.val)
         IN  IF r.ec # "ok" THEN Unexpected("ScalarConversionError")
             ELSE Ok(r.value)

\* as<double>(): only ec is inspected, ptr is dropped
AsDouble(n) ==
    IF ~isScalar(n) THEN Unexpected("TypeError")
    ELSE LET r == from_chars_double(n.val)
         IN  IF r.ec # "ok" THEN Unexpected("ScalarConversionError")
             ELSE Ok(r.value)

\* operator= that stores the text and leaves the kind tag alone
AssignTextKeepsKind(n, text) == [n EXCEPT !.alt = "Scalar", !.val = text]

\* operator=(const T&): every branch sets type = Scalar and stores a text
AssignText(n, text) == [n EXCEPT !.type = "Scalar", !.alt = "Scalar", !.val = text]

\* operator=(const T&) with an arithmetic T: the text is std::to_string(v)
AssignArithmetic(n, v) == AssignText(n, to_string(v))

\* operator=(Node&&): the target takes the source's type and value
MoveAssign(n, src) == src

\* the source is copied, it keeps its payload
MovedFromKeepsPayload(n) == {n}

\* Node(Node&&) = default: what the source n can be after the move.  type is
\* copied and stays; the variant keeps its alternative and holds the
\* moved-from payload: a vector is left empty, a string in a valid but
\* unspecified state (empty, or its old text)
MovedFrom(n) ==
    IF n.alt = "Scalar" THEN {[n EXCEPT !.val = <<>>], n}
    ELSE {[n EXCEPT !.val = <<>>]}

\* the last entry whose key equals key
FindKeyLast(entries, key) ==
    IF \E i \in 1..Len(entries) : entries[i].key = key
    THEN CHOOSE i \in 1..Len(entries) :
             /\ entries[i].key = key
             /\ \A j \in (i + 1)..Len(entries) : entries[j].key # key
    ELSE 0

\* the search stopping one entry short of the end
FindKeyMissesLast(entries, key) ==
    IF \E i \in 1..(Len(entries) - 1) : entries[i].key = key
    THEN CHOOSE i \in 1..(Len(entries) - 1) :
             /\ entries[i].key = key
             /\ \A j \in 1..(i - 1) : entries[j].key # key
    ELSE 0

\* the first entry whose key equals key, 0 when there is none
FindKey(entries, key) ==
    IF \E i \in 1..Len(entries) : entries[i].key = key
    THEN CHOOSE i \in 1..Len(entries) :
             /\ entries[i].key = key
             /\ \A j \in 1..(i - 1) : entries[j].key # key
    ELSE 0

\* operator[] that puts the new entry first
MapIndexInsertsFirst(n, key) ==
    LET i == FindKey(n.val, key)
    IN  IF i # 0 THEN [node |-> n, at |-> i]
        ELSE [node |-> [n EXCEPT !.val = <<MapEntry(key, NodeOf("Null"))>> \o n.val],
              at   |-> 1]

\* operator[](const std::string&): the map after the call and the position
\* of the entry whose value is returned
MapIndex(n, key) ==
    LET i == FindKey(n.val, key)
    IN  IF i # 0 THEN [node |-> n, at |-> i]
        ELSE [node |-> [n EXCEPT !.val = Append(n.val, MapEntry(key, NodeOf("Null")))],
              at   |-> Len(n.val) + 1]

\* emplace_back that puts the child first
EmplaceFrontNode(n, child) == [n EXCEPT !.val = <<child>> \o n.val]

\* emplace_back(const Node&): the argument is moved into a new last child
EmplaceBackNode(n, child) == [n EXCEPT !.val = Append(n.val, child)]

\* emplace_back(const T&), T not Node: Node temp; temp = v; then as above
EmplaceBackText(n, text) == EmplaceBackNode(n, AssignText(NodeOf("Null"), text))

EmplaceBackArithmetic(n, v) == EmplaceBackNode(n, AssignArithmetic(NodeOf("Null"), v))

(***************************************************************************)
(* Walking the tree by a path of child positions (what a chain of          *)
(* operator[] calls denotes).                                              *)
(***************************************************************************)
Children(n) ==
    IF n.alt = "Sequence" THEN n.val
    ELSE IF n.alt = "Map" THEN [i \in 1..Len(n.val) |-> n.val[i].value]
    ELSE <<>>

RECURSIVE NodeAt(_, _)
NodeAt(n, p) ==
    IF p = <<>> THEN n ELSE NodeAt(Children(n)[Head(p)], Tail(p))

RECURSIVE ReplaceAt(_, _, _)
ReplaceAt(n, p, new) ==
    IF p = <<>> THEN new
    ELSE LET i == Head(p)
             c == ReplaceAt(Children(n)[i], Tail(p), new)
         IN  IF n.alt = "Sequence" THEN [n EXCEPT !.val[i] = c]
             ELSE [n EXCEPT !.val[i].value = c]

RECURSIVE CountNodes(_)
RECURSIVE CountAll(_)
CountAll(ns) == IF ns = <<>> THEN 0 ELSE CountNodes(Head(ns)) + CountAll(Tail(ns))
CountNodes(n) == 1 + CountAll(Children(n))

\* the number of map entries (keys) in the tree
RECURSIVE CountKeys(_)
RECURSIVE CountKeysAll(_)
CountKeysAll(ns) == IF ns = <<>> THEN 0 ELSE CountKeys(Head(ns)) + CountKeysAll(Tail(ns))
CountKeys(n) == (IF n.alt = "Map" THEN Len(n.val) ELSE 0) + CountKeysAll(Children(n))

(***************************************************************************)
(* The emitter.  Every function returns std::expected<std::string, Error>: *)
(* Ok(text) or Unexpected("EmissionError").                                *)
(***************************************************************************)
RECURSIVE Spaces(_)
Spaces(n) == IF n <= 0 THEN <<>> ELSE <<" ">> \o Spaces(n - 1)

\* one space per level
indentStringOne(indentLevel) == Spaces(indentLevel)

indentString(indentLevel) == Spaces(indentLevel * 2)

emitScalar(node) ==
    LET optScalar == AsString(node)
    IN  IF ~optScalar.ok THEN Unexpected("EmissionError") ELSE Ok(optScalar.value)

RECURSIVE emitNode(_, _)
RECURSIVE emitSequenceLoop(_, _, _, _)
RECURSIVE emitMappingLoop(_, _, _, _)

\* the for loop of emitSequence from element i on, output being the text so far
emitSequenceLoop(seq, i, indentLevel, output) ==
    IF i > Len(seq) THEN Ok(output)
    ELSE LET element == seq[i]
             res == IF isScalar(element) THEN emitNode(element, 0)
                    ELSE emitNode(element, indentLevel + 1)
         IN  IF ~res.ok THEN Unexpected("EmissionError")
             ELSE IF isScalar(element)
                  THEN emitSequenceLoop(seq, i + 1, indentLevel,
                           output \o indentString(indentLevel) \o <<"-", " ">>
                                  \o res.value \o <<"\n">>)
                  ELSE emitSequenceLoop(seq, i + 1, indentLevel,
                           output \o indentString(indentLevel) \o <<"-", "\n">>
                                  \o res.value)

\* the elements written one level too deep
emitSequenceDeeper(node, indentLevel) ==
    IF ~isSequence(node) THEN Unexpected("EmissionError")
    ELSE emitSequenceLoop(node.val, 1, indentLevel + 1, <<>>)

\* a sequence without elements written in flow style
emitSequenceBrackets(node, indentLevel) ==
    IF ~isSequence(node) THEN Unexpected("EmissionError")
    ELSE IF node.val = <<>> THEN Ok(indentString(indentLevel) \o <<"[", "]", "\n">>)
    ELSE emitSequenceLoop(node.val, 1, indentLevel, <<>>)

emitSequence(node, indentLevel) ==
    IF ~isSequence(node) THEN Unexpected("EmissionError")      \* asSequence() == nullptr
    ELSE emitSequenceLoop(node.val, 1, indentLevel, <<>>)

\* the for loop of emitMapping from entry i on
emitMappingLoop(map, i, indentLevel, output) ==
    IF i > Len(map) THEN Ok(output)
    ELSE LET entry == map[i]
             res == IF isScalar(entry.value) THEN emitNode(entry.value, 0)
                    ELSE emitNode(entry.value, indentLevel + 1)
         IN  IF ~res.ok THEN Unexpected("EmissionError")
             ELSE IF isScalar(entry.value)
                  THEN emitMappingLoop(map, i + 1, indentLevel,
                           output \o indentString(indentLevel) \o entry.key
                                  \o <<":", " ">> \o res.value \o <<"\n">>)
                  ELSE emitMappingLoop(map, i + 1, indentLevel,
                           output \o indentString(indentLevel) \o entry.key
                                  \o <<":", "\n">> \o res.value)

\* the entries written without their indentation
emitMappingNoIndent(node, indentLevel) ==
    IF ~isMap(node) THEN Unexpected("EmissionError")
    ELSE emitMappingLoop(node.val, 1, 0, <<>>)

emitMapping(node, indentLevel) ==
    IF ~isMap(node) THEN Unexpected("EmissionError")           \* asMap() == nullptr
    ELSE emitMappingLoop(node.val, 1, indentLevel, <<>>)

\* the switch sending a Sequence to emitMapping
emitNodeSwapped(node, indentLevel) ==
    CASE node.type = "Scalar"   -> emitScalar(node)
      [] node.type = "Sequence" -> emitMapping(node, indentLevel)
      [] node.type = "Map"      -> emitMapping(node, indentLevel)
      [] OTHER                  -> Unexpected("EmissionError")

emitNode(node, indentLevel) ==
    CASE node.type = "Scalar"   -> emitScalar(node)
      [] node.type = "Sequence" -> emitSequence(node, indentLevel)
      [] node.type = "Map"      -> emitMapping(node, indentLevel)
      [] OTHER                  -> Unexpected("EmissionError")

emit(node) == emitNode(node, 0)

(***************************************************************************)
(* The builder.  yaml_parser_parse hands out one event per call; an event  *)
(* is [ok, type, value]: ok is the call's return value, value the scalar's *)
(* bytes.  EmbedYAML::parse and the recursive parse* functions are one     *)
(* activation record `parser`:                                             *)
(*   pc     which yaml_parser_parse call of parse() is next ("node" while  *)
(*          parseNode(parser, root) and what it calls are running),        *)
(*   stack  the open parseSequenceEvent / parseMappingEvent calls, the     *)
(*          innermost last, each with its node and, for a mapping, the     *)
(*          key read and whether the loop is at its key or its value,      *)
(*   root   parse()'s local root,                                          *)
(*   result what parse() returns once pc is "done" or "failed".            *)
(***************************************************************************)
EventTypes == {"NO_EVENT", "STREAM_START", "STREAM_END", "DOCUMENT_START",
               "DOCUMENT_END", "SCALAR", "SEQUENCE_START", "SEQUENCE_END",
               "MAPPING_START", "MAPPING_END"}

Event(t) == [ok |-> TRUE, type |-> t, value |-> <<>>]
ScalarEvent(text) == [ok |-> TRUE, type |-> "SCALAR", value |-> text]
\* yaml_parser_parse returned 0
LexerError == [ok |-> FALSE, type |-> "NO_EVENT", value |-> <<>>]

ParserIdle == [pc |-> "idle", stack |-> <<>>, root |-> NodeOf("Null"),
               result |-> Unexpected("none")]

\* the state on entry to parse(), before the first yaml_parser_parse
ParserStart == [ParserIdle EXCEPT !.pc = "stream_start"]

\* an error return that hands out the root as far as it was built
ParseFailKeepsTree(p) == [pc |-> "failed", stack |-> <<>>, root |-> p.root,
                          result |-> Ok(p.root)]

\* every `return std::unexpected(EmbedYAMLError{ParseError, ...})` of parse()
ParseFail(p) == [pc |-> "failed", stack |-> <<>>, root |-> NodeOf("Null"),
                 result |-> Unexpected("ParseError")]

SequenceFrame(n) == [fn |-> "parseSequenceEvent", node |-> n, at |-> "child", key |-> <<>>]
MappingFrame(n) == [fn |-> "parseMappingEvent", node |-> n, at |-> "key", key |-> <<>>]

Top(stack) == stack[Len(stack)]
Pop(stack) == SubSeq(stack, 1, Len(stack) - 1)

\* the Node the next parseNodeFromEvent call is given to fill: root (built
\* as a Map), child(Null), keyNode(Scalar) or valueNode(Null)
Slot(p) ==
    IF p.stack = <<>> THEN p.root
    ELSE IF Top(p.stack).at = "key" THEN NodeOf("Scalar")
    ELSE NodeOf("Null")

\* a builder that reads `null` and the empty text as a Null node
parseScalarEventInfers(event, node) ==
    IF event.value \in {<<>>, <<"n", "u", "l", "l">>} THEN NodeOf("Null")
    ELSE AssignText(NodeOf("Scalar"), event.value)

\* a node that was built as a Map stays one
parseScalarEventKeepsMap(event, node) ==
    IF isMap(node) THEN node
    ELSE AssignText(MoveAssign(AssignText(node, event.value), NodeOf("Scalar")), event.value)

\* parseScalarEvent: node = scalar; node = Node(Scalar); node = scalar
parseScalarEvent(event, node) ==
    AssignText(MoveAssign(AssignText(node, event.value), NodeOf("Scalar")), event.value)

\* the entry inserted at the front of the list
PushFrontEntry(map, key, valueNode) ==
    [map EXCEPT !.val = <<MapEntry(key, valueNode)>> \o map.val]

\* an entry whose key is already there is overwritten, not added
PushBackUnique(map, key, valueNode) ==
    LET i == FindKey(map.val, key)
    IN  IF i = 0 THEN [map EXCEPT !.val = Append(map.val, MapEntry(key, valueNode))]
        ELSE [map EXCEPT !.val[i].value = valueNode]

\* the entry made from a fresh Node instead of the value that was built
PushBackPlaceholder(map, key, valueNode) ==
    [map EXCEPT !.val = Append(map.val, MapEntry(key, NodeOf("Null")))]

\* m->push_back(MapEntry{key, std::make_unique<Node>(std::move(valueNode))})
PushBackEntry(map, key, valueNode) ==
    [map EXCEPT !.val = Append(map.val, MapEntry(key, valueNode))]

\* the caller of parseNodeFromEvent without the isScalar test on the key
DeliverAnyKey(p, node) ==
    IF p.stack = <<>>
    THEN [p EXCEPT !.root = node, !.pc = "document_end"]
    ELSE LET f == Top(p.stack)
             d == Len(p.stack)
         IN  CASE f.at = "child" ->
                    [p EXCEPT !.stack[d].node = EmplaceBackNode(f.node, node)]
               [] f.at = "key" ->
                    [p EXCEPT !.stack[d].key = IF isScalar(node) THEN node.val ELSE <<>>,
                              !.stack[d].at = "value"]
               [] f.at = "value" ->
                    [p EXCEPT !.stack[d].node =
                                  IF isMap(f.node)
                                  THEN PushBackEntry(f.node, f.key, node)
                                  ELSE f.node,
                              !.stack[d].at = "key"]

\* a parseNodeFromEvent call returned true with `node` filled: what its
\* caller does with it up to the caller's next yaml_parser_parse
Deliver(p, node) ==
    IF p.stack = <<>>
    THEN [p EXCEPT !.root = node, !.pc = "document_end"]
    ELSE LET f == Top(p.stack)
             d == Len(p.stack)
         IN  CASE f.at = "child" ->
                    [p EXCEPT !.stack[d].node = EmplaceBackNode(f.node, node)]
               [] f.at = "key" ->
                    IF ~isScalar(node) \/ ~AsString(node).ok THEN ParseFail(p)
                    ELSE [p EXCEPT !.stack[d].key = AsString(node).value,
                                   !.stack[d].at = "value"]
               [] f.at = "value" ->
                    [p EXCEPT !.stack[d].node =
                                  IF isMap(f.node)          \* auto* m = node.asMap()
                                  THEN PushBackEntry(f.node, f.key, node)
                                  ELSE f.node,
                              !.stack[d].at = "key"]

\* the switch with a default that builds an empty Scalar instead of failing
parseNodeFromEventLenient(p, event) ==
    CASE event.type = "SCALAR" ->
             Deliver(p, parseScalarEvent(event, Slot(p)))
      [] event.type = "SEQUENCE_START" ->
             [p EXCEPT !.stack = Append(p.stack,
                           SequenceFrame(MoveAssign(Slot(p), NodeOf("Sequence"))))]
      [] event.type = "MAPPING_START" ->
             [p EXCEPT !.stack = Append(p.stack,
                           MappingFrame(MoveAssign(Slot(p), NodeOf("Map"))))]
      [] OTHER -> Deliver(p, NodeOf("Scalar"))

\* the switch taking "no event" for nothing to do yet: the loop asks again
parseNodeFromEventSkips(p, event) ==
    CASE event.type = "SCALAR" ->
             Deliver(p, parseScalarEvent(event, Slot(p)))
      [] event.type = "SEQUENCE_START" ->
             [p EXCEPT !.stack = Append(p.stack,
                           SequenceFrame(MoveAssign(Slot(p), NodeOf("Sequence"))))]
      [] event.type = "MAPPING_START" ->
             [p EXCEPT !.stack = Append(p.stack,
                           MappingFrame(MoveAssign(Slot(p), NodeOf("Map"))))]
      [] event.type = "NO_EVENT" -> p
      [] OTHER -> ParseFail(p)

parseNodeFromEvent(p, event) ==
    CASE event.type = "SCALAR" ->
             Deliver(p, parseScalarEvent(event, Slot(p)))
      [] event.type = "SEQUENCE_START" ->
             [p EXCEPT !.stack = Append(p.stack,
                           SequenceFrame(MoveAssign(Slot(p), NodeOf("Sequence"))))]
      [] event.type = "MAPPING_START" ->
             [p EXCEPT !.stack = Append(p.stack,
                           MappingFrame(MoveAssign(Slot(p), NodeOf("Map"))))]
      [] OTHER -> ParseFail(p)

\* the sequence loop appending one more child when it sees the end event
NodeStepEndAddsNode(p, event) ==
    IF ~event.ok THEN ParseFail(p)
    ELSE IF p.stack # <<>> /\ Top(p.stack).at = "child" /\ event.type = "SEQUENCE_END"
         THEN Deliver([p EXCEPT !.stack = Pop(p.stack)],
                      EmplaceBackNode(Top(p.stack).node, NodeOf("Null")))
    ELSE IF p.stack # <<>> /\ Top(p.stack).at = "key" /\ event.type = "MAPPING_END"
         THEN Deliver([p EXCEPT !.stack = Pop(p.stack)], Top(p.stack).node)
    ELSE parseNodeFromEvent(p, event)

\* the event pulled while parseNode(parser, root) is running
NodeStep(p, event) ==
    IF ~event.ok THEN ParseFail(p)
    ELSE IF p.stack # <<>> /\ Top(p.stack).at = "child" /\ event.type = "SEQUENCE_END"
         THEN Deliver([p EXCEPT !.stack = Pop(p.stack)], Top(p.stack).node)
    ELSE IF p.stack # <<>> /\ Top(p.stack).at = "key" /\ event.type = "MAPPING_END"
         THEN Deliver([p EXCEPT !.stack = Pop(p.stack)], Top(p.stack).node)
    ELSE parseNodeFromEvent(p, event)

\* the envelope check without the test of event.type
ExpectAny(p, event, type, next) ==
    IF ~event.ok THEN ParseFail(p) ELSE next

\* one of the four envelope events of parse(): the expected type moves on
Expect(p, event, type, next) ==
    IF ~event.ok \/ event.type # type THEN ParseFail(p) ELSE next

\* the mapping loop handing the key event to parseNodeFromEvent once more
\* for the value instead of pulling the next event
ParseStepRereads(p, event) ==
    LET q == CASE p.pc = "stream_start" ->
                      Expect(p, event, "STREAM_START", [p EXCEPT !.pc = "document_start"])
               [] p.pc = "document_start" ->
                      Expect(p, event, "DOCUMENT_START",
                             [p EXCEPT !.pc = "node", !.root = NodeOf("Map")])
               [] p.pc = "node" -> NodeStep(p, event)
               [] p.pc = "document_end" ->
                      Expect(p, event, "DOCUMENT_END", [p EXCEPT !.pc = "stream_end"])
               [] p.pc = "stream_end" ->
                      Expect(p, event, "STREAM_END",
                             [p EXCEPT !.pc = "done", !.result = Ok(p.root)])
               [] OTHER -> p
    IN  IF /\ p.pc = "node" /\ p.stack # <<>> /\ Top(p.stack).at = "key"
           /\ event.ok /\ event.type = "SCALAR" /\ q.pc = "node"
        THEN NodeStep(q, event)
        ELSE q

\* parse() from one yaml_parser_parse call to the next (or to its return)
ParseStep(p, event) ==
    CASE p.pc = "stream_start" ->
             Expect(p, event, "STREAM_START", [p EXCEPT !.pc = "document_start"])
      [] p.pc = "document_start" ->
             Expect(p, event, "DOCUMENT_START",
                    [p EXCEPT !.pc = "node", !.root = NodeOf("Map")])
      [] p.pc = "node" -> NodeStep(p, event)
      [] p.pc = "document_end" ->
             Expect(p, event, "DOCUMENT_END", [p EXCEPT !.pc = "stream_end"])
      [] p.pc = "stream_end" ->
             Expect(p, event, "STREAM_END",
                    [p EXCEPT !.pc = "done", !.result = Ok(p.root)])
      [] OTHER -> p

ParserRunning(p) == p.pc \notin {"idle", "done", "failed"}

\* parse() run on a whole event list: events beyond its return are not pulled,
\* a list that ends early is a lexer that fails on the next call
RECURSIVE ParseRun(_, _)
ParseRun(p, events) ==
    IF ~ParserRunning(p) THEN p
    ELSE IF events = <<>> THEN ParseStep(p, LexerError)
    ELSE ParseRun(ParseStep(p, Head(events)), Tail(events))

(***************************************************************************)
(* The lexer behind yaml_parser_set_input_string / yaml_parser_parse       *)
(* (libyaml, vendored as external/libyaml), for the block-style texts the  *)
(* emitter writes: lines of `- text`, `-`, `key: text`, `key:` and bare    *)
(* text, nested by indentation.  A `-` or `key:` with nothing after it     *)
(* takes the more indented block that follows as its node, and is an empty *)
(* plain scalar when none follows.  An empty input has no document.  Only  *)
(* plain one-line scalars are covered: no quoting, flow style, comments,   *)
(* anchors or compact nested entries.                                      *)
(***************************************************************************)
RECURSIVE SplitLines(_, _)
SplitLines(text, cur) ==
    IF text = <<>> THEN (IF cur = <<>> THEN <<>> ELSE <<cur>>)
    ELSE IF Head(text) = "\n" THEN <<cur>> \o SplitLines(Tail(text), <<>>)
    ELSE SplitLines(Tail(text), Append(cur, Head(text)))

RECURSIVE LeadingSpaces(_)
LeadingSpaces(line) ==
    IF line # <<>> /\ Head(line) = " " THEN 1 + LeadingSpaces(Tail(line)) ELSE 0

RECURSIVE TrimRight(_)
TrimRight(t) ==
    IF t # <<>> /\ t[Len(t)] = " " THEN TrimRight(SubSeq(t, 1, Len(t) - 1)) ELSE t

Trim(t) == TrimRight(SubSeq(t, LeadingSpaces(t) + 1, Len(t)))

Body(line) == SubSeq(line, LeadingSpaces(line) + 1, Len(line))

NonBlank(lines) == SelectSeq(lines, LAMBDA l : Body(l) # <<>>)

IsSeqEntry(body) == body[1] = "-" /\ (Len(body) = 1 \/ body[2] = " ")

\* the position of the ':' that ends a key (followed by a space or the line's end)
ColonAt(body) ==
    LET ends == {i \in 1..Len(body) : body[i] = ":" /\ (i = Len(body) \/ body[i + 1] = " ")}
    IN  IF ends = {} THEN 0 ELSE CHOOSE i \in ends : \A j \in ends : i <= j

IsMapEntry(body) == ~IsSeqEntry(body) /\ ColonAt(body) # 0

RECURSIVE LexNode(_, _)
RECURSIVE LexSequence(_, _, _, _)
RECURSIVE LexMapping(_, _, _, _)

\* the node an entry at line i of a block indented by n holds after its
\* `-` or `key:`, given the text `rest` that follows on the line
LexEntryNode(lines, i, n, rest) ==
    IF rest # <<>> THEN [events |-> <<ScalarEvent(rest)>>, next |-> i + 1]
    ELSE IF i + 1 <= Len(lines) /\ LeadingSpaces(lines[i + 1]) > n
         THEN LexNode(lines, i + 1)
         ELSE [events |-> <<ScalarEvent(<<>>)>>, next |-> i + 1]

LexSequence(lines, i, n, events) ==
    IF i <= Len(lines) /\ LeadingSpaces(lines[i]) = n /\ IsSeqEntry(Body(lines[i]))
    THEN LET body == Body(lines[i])
             r    == LexEntryNode(lines, i, n, Trim(SubSeq(body, 2, Len(body))))
         IN  LexSequence(lines, r.next, n, events \o r.events)
    ELSE [events |-> events \o <<Event("SEQUENCE_END")>>, next |-> i]

LexMapping(lines, i, n, events) ==
    IF i <= Len(lines) /\ LeadingSpaces(lines[i]) = n /\ IsMapEntry(Body(lines[i]))
    THEN LET body == Body(lines[i])
             c    == ColonAt(body)
             r    == LexEntryNode(lines, i, n, Trim(SubSeq(body, c + 1, Len(body))))
         IN  LexMapping(lines, r.next, n,
                        events \o <<ScalarEvent(TrimRight(SubSeq(body, 1, c - 1)))>>
                               \o r.events)
    ELSE [events |-> events \o <<Event("MAPPING_END")>>, next |-> i]

\* the block node that starts at line i
LexNode(lines, i) ==
    LET n    == LeadingSpaces(lines[i])
        body == Body(lines[i])
    IN  IF IsSeqEntry(body) THEN LexSequence(lines, i, n, <<Event("SEQUENCE_START")>>)
        ELSE IF IsMapEntry(body) THEN LexMapping(lines, i, n, <<Event("MAPPING_START")>>)
        ELSE [events |-> <<ScalarEvent(TrimRight(body))>>, next |-> i + 1]

\* the whole event stream of an input text
Lex(text) ==
    LET lines == NonBlank(SplitLines(text, <<>>))
    IN  IF lines = <<>> THEN <<Event("STREAM_START"), Event("STREAM_END")>>
        ELSE LET r == LexNode(lines, 1)
             IN  <<Event("STREAM_START"), Event("DOCUMENT_START")>> \o r.events
                     \o (IF r.next > Len(lines)
                         THEN <<Event("DOCUMENT_END"), Event("STREAM_END")>>
                         ELSE <<LexerError>>)

\* parse(input): the builder run on the input's event stream
parse(input) == ParseRun(ParserStart, Lex(input)).result

(***************************************************************************)
(* The caller.  It holds the document `root` and one reference `ref` into  *)
(* it, and applies the public operations through that reference.  The     *)
(* preconditions the code asserts (isMap, isSequence, index in range) are  *)
(* the caller's obligation and guard the operations.                       *)
(***************************************************************************)
Keys == {<<"a">>, <<"b">>}
Texts == {<<"a">>, <<"7">>}
IntValues == {42}
ChildNodes == {NodeOf(t) : t \in NodeTypes}
                  \cup {AssignText(NodeOf("Null"), <<"a">>),
                        EmplaceBackText(NodeOf("Sequence"), <<"7">>)}
EventTexts == Keys

Lexer == {Event(t) : t \in EventTypes} \cup {ScalarEvent(t) : t \in EventTexts}
             \cup {LexerError}

Target == NodeAt(root, ref)

NoAssign == [path |-> <<>>, key |-> <<>>, text |-> <<>>, set |-> FALSE]

Op(name, arg, res) == [op |-> name, arg |-> arg, res |-> res]

\* what an assignment at ref leaves in `assigned`: the entry it wrote, when
\* ref came from map-index
NoteAssign(text) ==
    IF ref # <<>> /\ isMap(NodeAt(root, SubSeq(ref, 1, Len(ref) - 1)))
    THEN [path |-> ref,
          key  |-> NodeAt(root, SubSeq(ref, 1, Len(ref) - 1)).val[ref[Len(ref)]].key,
          text |-> text, set |-> TRUE]
    ELSE NoAssign

\* what the node about to be overwritten was
Was(n) == [type |-> n.type, descendants |-> CountNodes(n) - 1]

NoChain == [path |-> <<>>, values |-> <<>>, set |-> FALSE]

\* what appending child at ref leaves in `chain`
NoteAppend(child) ==
    IF Target.val = <<>> THEN [path |-> ref, values |-> <<child>>, set |-> TRUE]
    ELSE IF chain.set /\ chain.path = ref
         THEN [chain EXCEPT !.values = Append(chain.values, child)]
         ELSE NoChain

\* no Node of the caller has been moved from
NoMoved == [set |-> FALSE, node |-> NodeOf("Null")]

Idle == parser.pc = "idle"

\* Node(): the program starts with a default-constructed document
Init ==
    /\ root = NodeOf("Null")
    /\ ref = <<>>
    /\ last = Op("construct", <<>>, <<>>)
    /\ parser = ParserIdle
    /\ consumed = <<>>
    /\ assigned = NoAssign
    /\ chain = NoChain
    /\ moved = NoMoved

\* ref[key]
MapIndexOp(key) ==
    /\ Idle /\ isMap(Target)
    /\ (\A i \in 1..Len(Target.val) : Target.val[i].key # key) => CountNodes(root) < MaxNodes
    /\ LET r == MapIndex(Target, key)
       IN  /\ root' = ReplaceAt(root, ref, r.node)
           /\ ref' = Append(ref, r.at)
           /\ last' = Op("map_index", key, r.at)
           /\ chain' = IF r.node = Target THEN chain ELSE NoChain
    /\ moved' = NoMoved
    /\ UNCHANGED <<parser, consumed, assigned>>

\* ref[index]
SeqIndexOp(index) ==
    /\ Idle /\ isSequence(Target) /\ index < Len(Target.val)
    /\ ref' = Append(ref, index + 1)
    /\ last' = Op("seq_index", index, index + 1)
    /\ moved' = NoMoved
    /\ UNCHANGED <<root, parser, consumed, assigned, chain>>

\* ref.emplace_back(text), returning ref itself
EmplaceBackTextOp(text) ==
    /\ Idle /\ isSequence(Target) /\ CountNodes(root) < MaxNodes
    /\ root' = ReplaceAt(root, ref, EmplaceBackText(Target, text))
    /\ last' = Op("emplace_back_text", text, ref)
    /\ assigned' = NoAssign
    /\ chain' = NoteAppend(AssignText(NodeOf("Null"), text))
    /\ moved' = NoMoved
    /\ UNCHANGED <<ref, parser, consumed>>

\* ref.emplace_back(v) with an int
EmplaceBackIntOp(v) ==
    /\ Idle /\ isSequence(Target) /\ CountNodes(root) < MaxNodes
    /\ root' = ReplaceAt(root, ref, EmplaceBackArithmetic(Target, v))
    /\ last' = Op("emplace_back_int", v, ref)
    /\ assigned' = NoAssign
    /\ chain' = NoteAppend(AssignText(NodeOf("Null"), to_string(v)))
    /\ moved' = NoMoved
    /\ UNCHANGED <<ref, parser, consumed>>

\* ref.emplace_back(child) with a Node
EmplaceBackNodeOp(child) ==
    /\ Idle /\ isSequence(Target) /\ CountNodes(root) + CountNodes(child) <= MaxNodes
    /\ root' = ReplaceAt(root, ref, EmplaceBackNode(Target, child))
    /\ last' = Op("emplace_back_node", child, ref)
    /\ assigned' = NoAssign
    /\ chain' = NoteAppend(child)
    /\ \E source \in MovedFrom(child) : moved' = [set |-> TRUE, node |-> source]
    /\ UNCHANGED <<ref, parser, consumed>>

\* ref = text
AssignTextOp(text) ==
    /\ Idle
    /\ root' = ReplaceAt(root, ref, AssignText(Target, text))
    /\ last' = Op("assign_text", text, Was(Target))
    /\ assigned' = NoteAssign(text)
    /\ chain' = NoChain
    /\ moved' = NoMoved
    /\ UNCHANGED <<ref, parser, consumed>>

\* ref = v with an int
AssignIntOp(v) ==
    /\ Idle
    /\ root' = ReplaceAt(root, ref, AssignArithmetic(Target, v))
    /\ last' = Op("assign_int", v, Was(Target))
    /\ assigned' = NoteAssign(to_string(v))
    /\ chain' = NoChain
    /\ moved' = NoMoved
    /\ UNCHANGED <<ref, parser, consumed>>

\* ref = Node(t)
MoveAssignOp(t) ==
    /\ Idle
    /\ root' = ReplaceAt(root, ref, MoveAssign(Target, NodeOf(t)))
    /\ last' = Op("move_assign", t, Was(Target))
    /\ assigned' = NoAssign
    /\ chain' = NoChain
    /\ moved' = NoMoved
    /\ UNCHANGED <<ref, parser, consumed>>

\* ref.as<int>()
AsIntOp ==
    /\ Idle
    /\ last' = Op("as_int", Target, AsInt(Target))
    /\ moved' = NoMoved
    /\ UNCHANGED <<root, ref, parser, consumed, assigned, chain>>

\* ref.as<std::string>()
AsStringOp ==
    /\ Idle
    /\ last' = Op("as_string", Target, AsString(Target))
    /\ moved' = NoMoved
    /\ UNCHANGED <<root, ref, parser, consumed, assigned, chain>>

\* ref.as<double>()
AsDoubleOp ==
    /\ Idle
    /\ last' = Op("as_double", Target, AsDouble(Target))
    /\ moved' = NoMoved
    /\ UNCHANGED <<root, ref, parser, consumed, assigned, chain>>

\* e.emit(ref)
EmitOp ==
    /\ Idle
    /\ last' = Op("emit", Target, emit(Target))
    /\ moved' = NoMoved
    /\ UNCHANGED <<root, ref, parser, consumed, assigned, chain>>

\* e.parse(text) with the text the emit just made
ReparseOp ==
    /\ Idle /\ last.op = "emit" /\ last.res.ok
    /\ last' = Op("reparse", last.arg, parse(last.res.value))
    /\ moved' = NoMoved
    /\ UNCHANGED <<root, ref, parser, consumed, assigned, chain>>

\* the caller goes back to the document it owns
ToRoot ==
    /\ Idle /\ ref # <<>>
    /\ ref' = <<>>
    /\ last' = Op("to_root", <<>>, <<>>)
    /\ moved' = NoMoved
    /\ UNCHANGED <<root, parser, consumed, assigned, chain>>

\* the nodes of the containers the builder has open
RECURSIVE FrameNodes(_)
FrameNodes(stack) ==
    IF stack = <<>> THEN 0 ELSE CountNodes(Head(stack).node) + FrameNodes(Tail(stack))

StartsNode(p, event) ==
    /\ event.ok
    /\ \/ event.type \in {"SEQUENCE_START", "MAPPING_START"}
       \/ event.type = "SCALAR" /\ ~(p.stack # <<>> /\ Top(p.stack).at = "key")

\* e.parse(input) is entered
ParseBegin ==
    /\ Idle /\ last.op = "construct"
    /\ parser' = ParserStart
    /\ consumed' = <<>>
    /\ last' = Op("parse_begin", <<>>, <<>>)
    /\ moved' = NoMoved
    /\ UNCHANGED <<root, ref, assigned, chain>>

\* one yaml_parser_parse call and the builder's code up to the next one
Pull(event) ==
    /\ ParserRunning(parser)
    /\ Len(consumed) < MaxEvents
    /\ StartsNode(parser, event) => FrameNodes(parser.stack) < MaxNodes
    /\ parser' = ParseStep(parser, event)
    /\ consumed' = Append(consumed, event)
    /\ moved' = NoMoved
    /\ UNCHANGED <<root, ref, last, assigned, chain>>

\* parse() returns: the caller's document is the tree, or nothing on error
ParseReturn ==
    /\ parser.pc \in {"done", "failed"}
    /\ root' = IF parser.result.ok THEN parser.result.value ELSE root
    /\ ref' = <<>>
    /\ last' = Op("parse", <<>>, parser.result)
    /\ parser' = ParserIdle
    /\ consumed' = <<>>
    /\ assigned' = NoAssign
    /\ chain' = NoChain
    /\ moved' = NoMoved

Next ==
    \/ \E key \in Keys : MapIndexOp(key)
    \/ \E index \in 0..(MaxNodes - 1) : SeqIndexOp(index)
    \/ \E text \in Texts : EmplaceBackTextOp(text)
    \/ \E v \in IntValues : EmplaceBackIntOp(v)
    \/ \E child \in ChildNodes : EmplaceBackNodeOp(child)
    \/ \E text \in Texts : AssignTextOp(text)
    \/ \E v \in IntValues : AssignIntOp(v)
    \/ \E t \in NodeTypes : MoveAssignOp(t)
    \/ AsIntOp
    \/ AsStringOp
    \/ AsDoubleOp
    \/ EmitOp
    \/ ReparseOp
    \/ ToRoot
    \/ ParseBegin
    \/ \E event \in Lexer : Pull(event)
    \/ ParseReturn

Spec == Init /\ [][Next]_vars

(***************************************************************************)
(* The conversions on their own: one node, assigned texts and integers and *)
(* read back with as<T>().                                                 *)
(***************************************************************************)
ConvChars == {"4", "0", "-", "+", ".", "a"}

ConvTexts == UNION {[1..n -> ConvChars] : n \in 0..MaxTextLen}

ConvInts == {IntMin, IntMin + 1, -1000, -101, -10, -9, -1, 0, 1, 9, 10, 42, 100,
             999, 1000, IntMax - 1, IntMax}

NextConv ==
    \/ \E text \in ConvTexts : AssignTextOp(text)
    \/ \E v \in ConvInts : AssignIntOp(v)
    \/ AsIntOp
    \/ AsStringOp
    \/ AsDoubleOp

SpecConv == Init /\ [][NextConv]_vars

(***************************************************************************)
(* The conversions at the ends of int: the texts a caller can assign are   *)
(* the decimal literals around INT_MAX, INT_MIN and 2^32, with and without *)
(* a sign and a leading zero, read back with as<int>().                    *)
(***************************************************************************)
WideDigits ==
    {<<"2", "1", "4", "7", "4", "8", "3", "6", "4">>,
     <<"2", "1", "4", "7", "4", "8", "3", "6", "4", "6">>,
     <<"2", "1", "4", "7", "4", "8", "3", "6", "4", "7">>,
     <<"2", "1", "4", "7", "4", "8", "3", "6", "4", "8">>,
     <<"2", "1", "4", "7", "4", "8", "3", "6", "4", "9">>,
     <<"2", "1", "4", "7", "4", "8", "3", "6", "5", "0">>,
     <<"3", "0", "0", "0", "0", "0", "0", "0", "0", "0">>,
     <<"4", "2", "9", "4", "9", "6", "7", "2", "9", "6">>,
     <<"4", "2", "9", "4", "9", "6", "7", "2", "9", "7">>,
     <<"4", "2", "9", "4", "9", "6", "7", "3", "3", "8">>,
     <<"9", "9", "9", "9", "9", "9", "9", "9", "9", "9">>,
     <<"2", "1", "4", "7", "4", "8", "3", "6", "4", "7", "0">>,
     <<"9", "9", "9", "9", "9", "9", "9", "9", "9", "9", "9">>}

WideTexts ==
    {sign \o zero \o digits :
        sign \in {<<>>, <<"-">>}, zero \in {<<>>, <<"0">>}, digits \in WideDigits}

NextWide ==
    \/ \E text \in WideTexts : AssignTextOp(text)
    \/ AsIntOp
    \/ AsStringOp

SpecWide == Init /\ [][NextWide]_vars

(***************************************************************************)
(* The emitting example (examples/Emitting.cpp): main() statement by       *)
(* statement on the document `root`, last.arg being the line of the        *)
(* statement executed last.  The two names and the number are inputs.      *)
(***************************************************************************)
Person == <<"p", "e", "r", "s", "o", "n">>
Other == <<"o", "t", "h", "e", "r">>
Key == <<"k", "e", "y">>
Name1 == <<"N", "a", "m", "e", " ", "1">>
Name2 == <<"N", "a", "m", "e", " ", "2">>
ExampleNames == {Name1, Name2}

At(line) == last.op = "main" /\ last.arg = line

\* node[key]: the Node the reference returned by operator[] denotes
EntryOf(node, key) ==
    LET r == MapIndex(node, key)
    IN  NodeAt(r.node, <<r.at>>)

\* node[key] written through: the map after operator[] with the entry's
\* value replaced by new
SetEntry(node, key, new) ==
    LET r == MapIndex(node, key)
    IN  ReplaceAt(r.node, <<r.at>>, new)

\* Node node(NodeType::Map);
ExampleConstruct ==
    /\ last.op = "construct"
    /\ root' = NodeOf("Map")
    /\ last' = Op("main", 22, <<>>)
    /\ moved' = NoMoved
    /\ UNCHANGED <<ref, parser, consumed, assigned, chain>>

\* node["person"] = Node(NodeType::Sequence);
ExamplePerson ==
    /\ At(22)
    /\ root' = SetEntry(root, Person, MoveAssign(EntryOf(root, Person), NodeOf("Sequence")))
    /\ last' = Op("main", 23, <<>>)
    /\ moved' = NoMoved
    /\ UNCHANGED <<ref, parser, consumed, assigned, chain>>

\* node["person"].emplace_back(name);   (lines 24 and 25)
ExampleName(name) ==
    /\ At(23) \/ At(24)
    /\ isSequence(EntryOf(root, Person))
    /\ root' = SetEntry(root, Person, EmplaceBackText(EntryOf(root, Person), name))
    /\ last' = Op("main", last.arg + 1, <<>>)
    /\ moved' = NoMoved
    /\ UNCHANGED <<ref, parser, consumed, assigned, chain>>

\* node["other"] = Node(NodeType::Map);
ExampleOther ==
    /\ At(25)
    /\ root' = SetEntry(root, Other, MoveAssign(EntryOf(root, Other), NodeOf("Map")))
    /\ last' = Op("main", 26, <<>>)
    /\ moved' = NoMoved
    /\ UNCHANGED <<ref, parser, consumed, assigned, chain>>

\* node["other"]["key"] = v;
ExampleKey(v) ==
    /\ At(26)
    /\ isMap(EntryOf(root, Other))
    /\ LET other == EntryOf(root, Other)
       IN  root' = SetEntry(root, Other,
                            SetEntry(other, Key, AssignArithmetic(EntryOf(other, Key), v)))
    /\ last' = Op("main", 27, <<>>)
    /\ moved' = NoMoved
    /\ UNCHANGED <<ref, parser, consumed, assigned, chain>>

\* auto result = e.emit(node);
ExampleEmit ==
    /\ At(27)
    /\ last' = Op("main", 29, emit(root))
    /\ moved' = NoMoved
    /\ UNCHANGED <<root, ref, parser, consumed, assigned, chain>>

NextExample ==
    \/ ExampleConstruct
    \/ ExamplePerson
    \/ \E name \in ExampleNames : ExampleName(name)
    \/ ExampleOther
    \/ \E v \in ConvInts : ExampleKey(v)
    \/ ExampleEmit

SpecExample == Init /\ [][NextExample]_vars

(***************************************************************************)
(* Parsing texts that look like other types: the builder fed scalar events *)
(* whose content reads as a number, a boolean, a null or nothing, and the  *)
(* caller reading the parsed nodes back.                                   *)
(***************************************************************************)
ScalarTexts == {<<"3", "0">>, <<"t", "r", "u", "e">>, <<"n", "u", "l", "l">>, <<>>}

TextLexer == {Event(t) : t \in EventTypes \ {"NO_EVENT", "SCALAR"}}
                 \cup {ScalarEvent(t) : t \in ScalarTexts}

NextTexts ==
    \/ ParseBegin
    \/ \E event \in TextLexer : Pull(event)
    \/ ParseReturn
    \/ \E index \in 0..(MaxNodes - 1) : SeqIndexOp(index)
    \/ AsIntOp
    \/ AsStringOp

SpecTexts == Init /\ [][NextTexts]_vars

(***************************************************************************)
(* parse() on a finite event stream.  The stream has at most MaxEvents     *)
(* events and may end anywhere; once it has ended yaml_parser_parse        *)
(* produces no event (it returns with event.type == YAML_NO_EVENT) however *)
(* often it is called.  `consumed` records the events and the first of     *)
(* these empty results.                                                    *)
(* parse() runs to completion once entered: every yaml_parser_parse call   *)
(* returns and the code after it runs, which is the fairness assumed.      *)
(***************************************************************************)
StreamLexer == {Event(t) : t \in EventTypes} \cup {ScalarEvent(<<"a">>), LexerError}

\* the stream has handed out its last event
Exhausted(events) ==
    \/ Len(events) >= MaxEvents
    \/ events # <<>> /\ events[Len(events)] = Event("NO_EVENT")

PullStream(event) ==
    /\ ParserRunning(parser)
    /\ Exhausted(consumed) => event = Event("NO_EVENT")
    /\ StartsNode(parser, event) => FrameNodes(parser.stack) < MaxNodes
    /\ parser' = ParseStep(parser, event)
    /\ consumed' = IF consumed # <<>> /\ consumed[Len(consumed)] = Event("NO_EVENT")
                   THEN consumed
                   ELSE Append(consumed, event)
    /\ moved' = NoMoved
    /\ UNCHANGED <<root, ref, last, assigned, chain>>

NextStream ==
    \/ ParseBegin
    \/ \E event \in StreamLexer : PullStream(event)
    \/ ParseReturn

SpecStream ==
    /\ Init /\ [][NextStream]_vars
    /\ WF_vars(\E event \in StreamLexer : PullStream(event))
    /\ WF_vars(ParseReturn)

(***************************************************************************)
(* Properties.                                                             *)
(***************************************************************************)
\* what a std::expected holds
Returned(r, v) == r.ok /\ r.value = v
Failed(r, e) == ~r.ok /\ r.err = e

\* an optional '-' followed by one or more digits and nothing else
IsIntLiteral(s) ==
    LET first == IF Len(s) >= 1 /\ s[1] = "-" THEN 2 ELSE 1
    IN  /\ first <= Len(s)
        /\ \A i \in first..Len(s) : s[i] \in {"0", "1", "2", "3", "4", "5", "6", "7", "8", "9"}

\* minus the number the digits s[i..Len(s)] denote after the digits before them gave acc
RECURSIVE NegValue(_, _, _)
NegValue(s, i, acc) ==
    IF i > Len(s) THEN acc
    ELSE NegValue(s, i + 1,
                  acc * 10 - (CHOOSE d \in 0..9 : Digits[d + 1] = s[i]))

LiteralValue(s) ==
    IF s[1] = "-" THEN NegValue(s, 2, 0) ELSE -NegValue(s, 1, 0)

\* C3: as<int>() on a Scalar returns the value exactly when the whole text
\* is an integer literal, and ScalarConversionError for every other text
\* (trailing characters, the empty text, anything malformed).
StrictIntConversion ==
    (last.op = "as_int" /\ isScalar(last.arg)) =>
        IF IsIntLiteral(last.arg.val)
        THEN Returned(last.res, LiteralValue(last.arg.val))
        ELSE Failed(last.res, "ScalarConversionError")

\* C6: after an assignment the node is a Scalar holding the value's text,
\* whatever it was before, and nothing of its former children is left.
AssignMakesScalar ==
    (last.op \in {"assign_text", "assign_int"}) =>
        /\ Target = [type |-> "Scalar", alt |-> "Scalar",
                     val |-> IF last.op = "assign_text" THEN last.arg
                             ELSE to_string(last.arg)]
        /\ CountNodes(Target) = 1

\* a Map that had an entry was overwritten by an assignment
AssignOverContainer ==
    /\ last.op = "assign_text"
    /\ last.res.type = "Map" /\ last.res.descendants >= 1
    /\ Target.type = "Scalar" /\ Target.val = last.arg

\* C7: an int assigned to a node is what as<int>() on that node returns.
IntRoundTrip ==
    [][(last.op = "assign_int" /\ last'.op = "as_int") => Returned(last'.res, last.arg)]_vars

\* as<int>() returned the smallest int
IntMinReadBack ==
    /\ last.op = "as_int" /\ last.res.ok /\ last.res.value = IntMin
    /\ Len(last.arg.val) = 11

\* C8: as<T>() on a Null, Sequence or Map node is TypeError for string, int
\* and double alike, and the node is what it was.
NonScalarIsTypeError ==
    (last.op \in {"as_int", "as_string", "as_double"} /\ last.arg.type # "Scalar") =>
        /\ Failed(last.res, "TypeError")
        /\ Target = last.arg

\* as<double>() was called on a Sequence that has a child
TypedGetOnSequence ==
    /\ last.op = "as_double" /\ last.arg.type = "Sequence" /\ Len(last.arg.val) >= 1
    /\ ~last.res.ok

Parent == NodeAt(root, SubSeq(ref, 1, Len(ref) - 1))

\* C4: map-index with a key the Map does not hold appends exactly one entry,
\* that key with a Null value, after the entries that were there, which stay
\* as they were; and a value assigned through the reference is what the next
\* map-index with that key on that Map refers to.
AutoVivification ==
    [][(last'.op = "map_index") =>
          LET before == NodeAt(root, ref)
              after  == NodeAt(root', ref)
              key    == last'.arg
              n      == Len(before.val)
          IN  /\ (\A i \in 1..n : before.val[i].key # key) =>
                     /\ after.type = "Map" /\ after.alt = "Map"
                     /\ Len(after.val) = n + 1
                     /\ SubSeq(after.val, 1, n) = before.val
                     /\ after.val[n + 1] = [key |-> key, value |-> NodeOf("Null")]
                     /\ root' = ReplaceAt(root, ref, after)
                     /\ ref' = Append(ref, n + 1)
                     /\ last'.res = n + 1
              /\ (assigned.set /\ assigned.key = key
                    /\ ref = SubSeq(assigned.path, 1, Len(assigned.path) - 1)) =>
                     NodeAt(root', ref') = [type |-> "Scalar", alt |-> "Scalar",
                                            val |-> assigned.text]
    ]_vars

\* a key was looked up again after its vivified entry was assigned, in a Map
\* where the vivified entry came second
VivifiedThenAssignedThenRead ==
    /\ last.op = "map_index" /\ assigned.set /\ assigned.key = last.arg
    /\ assigned.path = ref /\ ref[Len(ref)] = 2
    /\ Target.type = "Scalar" /\ Len(Parent.val) = 2

\* C5: map-index with a key the Map holds returns the value of the first
\* entry with that key and changes nothing in the tree.
MapIndexHitIsPure ==
    [][(last'.op = "map_index") =>
          LET before == NodeAt(root, ref)
              key    == last'.arg
          IN  \A i \in 1..Len(before.val) :
                  (before.val[i].key = key /\ \A j \in 1..(i - 1) : before.val[j].key # key) =>
                      /\ root' = root
                      /\ ref' = Append(ref, i)
                      /\ NodeAt(root', ref') = before.val[i].value
    ]_vars

\* a parsed Map holding a key twice, with different values, was indexed by it
HitOnDuplicateKey ==
    /\ last.op = "map_index" /\ ref # <<>>
    /\ Len(Parent.val) = 2
    /\ Parent.val[1].key = last.arg /\ Parent.val[2].key = last.arg
    /\ Parent.val[1].value # Parent.val[2].value
    /\ Target = Parent.val[1].value

RECURSIVE EventsOf(_)
RECURSIVE EventsOfChildren(_)
RECURSIVE EventsOfEntries(_)
EventsOfChildren(ns) ==
    IF ns = <<>> THEN <<>> ELSE EventsOf(Head(ns)) \o EventsOfChildren(Tail(ns))
EventsOfEntries(es) ==
    IF es = <<>> THEN <<>>
    ELSE <<[ok |-> TRUE, type |-> "SCALAR", value |-> Head(es).key]>>
             \o EventsOf(Head(es).value) \o EventsOfEntries(Tail(es))
EventsOf(n) ==
    CASE n.type = "Scalar" /\ n.alt = "Scalar" ->
             <<[ok |-> TRUE, type |-> "SCALAR", value |-> n.val]>>
      [] n.type = "Sequence" /\ n.alt = "Sequence" ->
             <<Event("SEQUENCE_START")>> \o EventsOfChildren(n.val)
                 \o <<Event("SEQUENCE_END")>>
      [] n.type = "Map" /\ n.alt = "Map" ->
             <<Event("MAPPING_START")>> \o EventsOfEntries(n.val)
                 \o <<Event("MAPPING_END")>>
      [] OTHER -> <<Event("NO_EVENT")>>

\* C10: when parse succeeds, the entries of every Map of the tree are the
\* key events and the values built after them, in the order of the event
\* stream between that mapping's start and end: the stream read back from
\* the tree is the stream that was consumed.
ParsedOrderIsSourceOrder ==
    (parser.pc = "done") =>
        /\ parser.result.ok /\ parser.result.value = parser.root
        /\ consumed = <<Event("STREAM_START"), Event("DOCUMENT_START")>>
                          \o EventsOf(parser.root)
                          \o <<Event("DOCUMENT_END"), Event("STREAM_END")>>

\* a mapping with the keys b, a in that order was parsed
ParsedKeysOutOfAlphabet ==
    /\ parser.pc = "done" /\ parser.root.type = "Map"
    /\ Len(parser.root.val) = 2
    /\ parser.root.val[1].key = <<"b">> /\ parser.root.val[2].key = <<"a">>

RECURSIVE HasNull(_)
HasNull(n) ==
    \/ n.type = "Null"
    \/ \E i \in 1..Len(Children(n)) : HasNull(Children(n)[i])

RECURSIVE KeysDistinct(_)
KeysDistinct(n) ==
    /\ n.type = "Map" =>
           \A i, j \in 1..Len(n.val) : n.val[i].key = n.val[j].key => i = j
    /\ \A i \in 1..Len(Children(n)) : KeysDistinct(Children(n)[i])

\* C1: a tree without duplicate keys, whatever Null nodes and empty
\* containers it has, is emitted without error, and parsing the emitted text
\* gives the tree back.
RoundTrip ==
    /\ (last.op = "emit" /\ KeysDistinct(last.arg)) => last.res.ok
    /\ (last.op = "reparse" /\ KeysDistinct(last.arg)) =>
           (last.res.ok /\ last.res.value = last.arg)

\* the text the emitter is specified to write for a node at a level: null
\* for Null, the text of a Scalar, one `- ` or `key: ` line per Scalar or
\* Null child, and a `-` or `key:` line followed by the child's block one
\* level deeper for a container child
RECURSIVE SpecifiedText(_, _)
RECURSIVE SpecifiedItems(_, _, _)
RECURSIVE SpecifiedEntries(_, _, _)
SpecifiedItems(items, i, level) ==
    IF i > Len(items) THEN <<>>
    ELSE (IF items[i].type \in {"Scalar", "Null"}
          THEN Spaces(2 * level) \o <<"-", " ">> \o SpecifiedText(items[i], 0) \o <<"\n">>
          ELSE Spaces(2 * level) \o <<"-", "\n">> \o SpecifiedText(items[i], level + 1))
         \o SpecifiedItems(items, i + 1, level)
SpecifiedEntries(entries, i, level) ==
    IF i > Len(entries) THEN <<>>
    ELSE (IF entries[i].value.type \in {"Scalar", "Null"}
          THEN Spaces(2 * level) \o entries[i].key \o <<":", " ">>
                   \o SpecifiedText(entries[i].value, 0) \o <<"\n">>
          ELSE Spaces(2 * level) \o entries[i].key \o <<":", "\n">>
                   \o SpecifiedText(entries[i].value, level + 1))
         \o SpecifiedEntries(entries, i + 1, level)
SpecifiedText(n, level) ==
    CASE n.type = "Null"     -> <<"n", "u", "l", "l">>
      [] n.type = "Scalar"   -> n.val
      [] n.type = "Sequence" -> SpecifiedItems(n.val, 1, level)
      [] n.type = "Map"      -> SpecifiedEntries(n.val, 1, level)

\* C2: a tree with a Null node is emitted without error, the Null node as
\* the text null: alone for a Null root, as `- null` for a sequence child
\* and as `key: null` for a map value, at the indentation of its level.
NullEmitsLiteral ==
    (last.op = "emit" /\ HasNull(last.arg)) =>
        (last.res.ok /\ last.res.value = SpecifiedText(last.arg, 0))

\* the events are the envelope around one mapping of scalar keys and scalar
\* values, complete up to the stream end
IsFlatMapping(events) ==
    LET n == Len(events)
    IN  /\ n >= 6 /\ n % 2 = 0
        /\ events[1] = Event("STREAM_START") /\ events[2] = Event("DOCUMENT_START")
        /\ events[3] = Event("MAPPING_START") /\ events[n - 2] = Event("MAPPING_END")
        /\ events[n - 1] = Event("DOCUMENT_END") /\ events[n] = Event("STREAM_END")
        /\ \A i \in 4..(n - 3) : events[i].ok /\ events[i].type = "SCALAR"

\* the lines `key: text` for the pairs of scalar events from position i on
RECURSIVE PairLines(_, _)
PairLines(events, i) ==
    IF i + 1 > Len(events) - 3 THEN <<>>
    ELSE events[i].value \o <<":", " ">> \o events[i + 1].value \o <<"\n">>
             \o PairLines(events, i + 2)

\* C11: a mapping in which a key text occurs several times parses to a Map
\* with one entry per key/value pair of the source, duplicates included and
\* in source order; map-index with a key returns its first entry and leaves
\* the map as it is, and emit writes one line per entry.
DuplicateKeysPreserved ==
    IsFlatMapping(consumed) =>
        /\ parser.pc = "done" /\ parser.result.ok
        /\ LET m == parser.result.value
               k == (Len(consumed) - 6) \div 2
           IN  /\ m.type = "Map" /\ m.alt = "Map" /\ Len(m.val) = k
               /\ \A i \in 1..k :
                      /\ m.val[i].key = consumed[2 + 2 * i].value
                      /\ m.val[i].value = [type |-> "Scalar", alt |-> "Scalar",
                                           val |-> consumed[3 + 2 * i].value]
                      /\ MapIndex(m, m.val[i].key).node = m
                      /\ m.val[MapIndex(m, m.val[i].key).at].key = m.val[i].key
                      /\ \A j \in 1..(MapIndex(m, m.val[i].key).at - 1) :
                             m.val[j].key # m.val[i].key
               /\ Returned(emit(m), PairLines(consumed, 4))

\* a mapping with the same key twice and two different values was parsed
ParsedSameKeyTwice ==
    /\ IsFlatMapping(consumed) /\ Len(consumed) = 10
    /\ consumed[4].value = consumed[6].value
    /\ consumed[5].value # consumed[7].value
    /\ parser.pc = "done"

\* a parseMappingEvent call is building its key from a sequence or mapping
KeyIsContainer(p) == \E i \in 1..(Len(p.stack) - 1) : p.stack[i].at = "key"

\* C12: a sequence-start or mapping-start event where a mapping expects a
\* key makes parse return ParseError, at any depth and whatever follows:
\* from that event on the run can only fail, it never returns a tree.
NonScalarKeyIsError ==
    [][/\ (/\ parser.pc = "node" /\ parser.stack # <<>>
            /\ Top(parser.stack).at = "key"
            /\ Len(consumed') = Len(consumed) + 1
            /\ consumed'[Len(consumed')].ok
            /\ consumed'[Len(consumed')].type \in {"SEQUENCE_START", "MAPPING_START"})
               => KeyIsContainer(parser')
       /\ KeyIsContainer(parser) =>
              \/ parser'.pc = "node" /\ KeyIsContainer(parser')
              \/ parser'.pc = "failed" /\ Failed(parser'.result, "ParseError")
    ]_vars

\* a mapping inside a sequence had an empty mapping as its key, and parse
\* failed when that key was complete
NestedMappingKeyFailed ==
    /\ parser.pc = "failed" /\ Len(consumed) = 6
    /\ consumed[3] = Event("SEQUENCE_START") /\ consumed[4] = Event("MAPPING_START")
    /\ consumed[5] = Event("MAPPING_START") /\ consumed[6] = Event("MAPPING_END")

\* the event closes the container the innermost open parse call is reading:
\* the one event that is accepted where a node may start without starting one
ClosesInnermost(p, event) ==
    /\ p.stack # <<>>
    /\ \/ Top(p.stack).at = "child" /\ event.type = "SEQUENCE_END"
       \/ Top(p.stack).at = "key" /\ event.type = "MAPPING_END"

\* C13: where a node is expected (root, sequence element, mapping key,
\* mapping value) an event that is not scalar, sequence-start or
\* mapping-start makes parse return ParseError; so a container followed by
\* stream-end or document-end before its own end event, and a mapping-end
\* in value position, fail.
WrongEventIsError ==
    [][(/\ parser.pc = "node"
        /\ Len(consumed') = Len(consumed) + 1
        /\ LET event == consumed'[Len(consumed')]
           IN  /\ event.type \notin {"SCALAR", "SEQUENCE_START", "MAPPING_START"}
               /\ ~ClosesInnermost(parser, event))
           => /\ parser'.pc = "failed"
              /\ Failed(parser'.result, "ParseError")
    ]_vars

\* a sequence was opened and the stream ended before its end event
TruncatedSequenceFailed ==
    /\ parser.pc = "failed"
    /\ consumed = <<Event("STREAM_START"), Event("DOCUMENT_START"),
                    Event("SEQUENCE_START"), Event("STREAM_END")>>

\* C14: a run of parse ends with a complete tree or with one error of kind
\* ParseError and nothing else: the failed result carries no tree however
\* many nodes were built before the failure, a successful result is the
\* whole root with no parse call left open, and no result exists before
\* the run has ended.
NoPartialResult ==
    /\ parser.pc = "failed" =>
           /\ Failed(parser.result, "ParseError")
           /\ parser.result.value = <<>>
           /\ parser.stack = <<>> /\ parser.root = NodeOf("Null")
    /\ parser.pc = "done" =>
           /\ parser.result.ok /\ parser.result.err = "none"
           /\ parser.result.value = parser.root
           /\ parser.stack = <<>>
           /\ consumed[Len(consumed)] = Event("STREAM_END")
    /\ ParserRunning(parser) => Failed(parser.result, "none")
    /\ last.op = "parse" =>
           IF last.res.ok THEN root = last.res.value
           ELSE /\ Failed(last.res, "ParseError") /\ last.res.value = <<>>
                /\ root = NodeOf("Null")

\* two elements of a sequence had been built when the document ended early
FailedAfterTwoNodes ==
    /\ parser.pc = "failed" /\ Len(consumed) = 6
    /\ consumed[3] = Event("SEQUENCE_START")
    /\ consumed[4].type = "SCALAR" /\ consumed[5].type = "SCALAR"
    /\ consumed[6] = Event("DOCUMENT_END")

\* the example's document was emitted: person -> ["Name 1", "Name 2"],
\* other -> {key: 42}
ExampleEmitted ==
    /\ last.op = "main" /\ last.arg = 29
    /\ Len(root.val) = 2
    /\ root.val[1].key = Person /\ root.val[1].value.type = "Sequence"
    /\ Len(root.val[1].value.val) = 2
    /\ root.val[1].value.val[1].val = Name1
    /\ root.val[1].value.val[2].val = Name2
    /\ root.val[2].key = Other /\ root.val[2].value.type = "Map"
    /\ Len(root.val[2].value.val) = 1
    /\ root.val[2].value.val[1].key = Key
    /\ root.val[2].value.val[1].value.val = <<"4", "2">>

\* C15 as stated: the example emits the lines `person:`, `- Name 1`,
\* `- Name 2`, `other:`, `  key: 42`, the sequence items with no leading
\* spaces and the nested entry with two.
ExampleEmitsFlatItems ==
    ExampleEmitted =>
        Returned(last.res,
                 Person \o <<":", "\n">>
                     \o <<"-", " ">> \o Name1 \o <<"\n">>
                     \o <<"-", " ">> \o Name2 \o <<"\n">>
                     \o Other \o <<":", "\n">>
                     \o <<" ", " ">> \o Key \o <<":", " ", "4", "2", "\n">>)

\* C15 amended: the example emits the lines `person:`, `  - Name 1`,
\* `  - Name 2`, `other:`, `  key: 42`: the sequence items carry two
\* leading spaces like the nested entry, being one level below their key.
ExampleEmitsIndentedItems ==
    ExampleEmitted =>
        Returned(last.res,
                 Person \o <<":", "\n">>
                     \o <<" ", " ", "-", " ">> \o Name1 \o <<"\n">>
                     \o <<" ", " ", "-", " ">> \o Name2 \o <<"\n">>
                     \o Other \o <<":", "\n">>
                     \o <<" ", " ">> \o Key \o <<":", " ", "4", "2", "\n">>)

\* the example ran to its emit and the emit returned a text
ExampleRan == ExampleEmitted /\ last.res.ok /\ Len(last.res.value) = 47

\* the characters a std::string of the model is made of
Alphabet == {"a", "b", "c", "d", "e", "f", "g", "h", "i", "j", "k", "l", "m",
             "n", "o", "p", "q", "r", "s", "t", "u", "v", "w", "x", "y", "z",
             "0", "1", "2", "3", "4", "5", "6", "7", "8", "9",
             "N", " ", "-", "+", ".", ":", "~", "\n"}

\* the variant holds the alternative of the node's kind, and so does every
\* node below it: no value, a text, a list of nodes, a list of entries
RECURSIVE KindMatches(_)
KindMatches(n) ==
    /\ n.type \in NodeTypes
    /\ n.alt = n.type
    /\ CASE n.type = "Null"     -> n.val = <<>>
          [] n.type = "Scalar"   -> \A i \in 1..Len(n.val) : n.val[i] \in Alphabet
          [] n.type = "Sequence" -> \A i \in 1..Len(n.val) : KindMatches(n.val[i])
          [] n.type = "Map"      ->
                 \A i \in 1..Len(n.val) :
                     /\ \A c \in 1..Len(n.val[i].key) : n.val[i].key[c] \in Alphabet
                     /\ KindMatches(n.val[i].value)

\* C16: after any sequence of public operations the payload variant of
\* every node of the tree matches the node's kind, and so does that of a
\* node that was moved from and of every node parse is building or returns.
KindMatchesPayload ==
    /\ KindMatches(root)
    /\ KindMatches(moved.node)
    /\ KindMatches(parser.root)
    /\ \A i \in 1..Len(parser.stack) : KindMatches(parser.stack[i].node)
    /\ parser.result.ok => KindMatches(parser.result.value)

\* a Scalar node with a text was appended and the caller's node, moved
\* from, is a Scalar still
MovedFromScalar ==
    /\ last.op = "emplace_back_node" /\ moved.set
    /\ last.arg.type = "Scalar" /\ last.arg.val # <<>>
    /\ moved.node.type = "Scalar" /\ moved.node.val = <<>>
    /\ Target.val[Len(Target.val)] = last.arg

Envelope == [stream_start   |-> [type |-> "STREAM_START",   then |-> "document_start"],
             document_start |-> [type |-> "DOCUMENT_START", then |-> "node"],
             document_end   |-> [type |-> "DOCUMENT_END",   then |-> "stream_end"],
             stream_end     |-> [type |-> "STREAM_END",     then |-> "done"]]

\* C18: parse accepts only stream-start, document-start, one root node,
\* document-end, stream-end in that order: the first event, the second,
\* the one after the root node and the one after document-end must each be
\* the expected one, and any other event there makes parse return
\* ParseError (a second document-start after document-end, for one).
EnvelopeEnforced ==
    [][/\ parser.pc = "stream_start" => consumed = <<>>
       /\ parser.pc = "document_start" => consumed = <<Event("STREAM_START")>>
       /\ parser.pc = "document_end" =>
              consumed = <<Event("STREAM_START"), Event("DOCUMENT_START")>>
                             \o EventsOf(parser.root)
       /\ parser.pc = "stream_end" =>
              consumed = <<Event("STREAM_START"), Event("DOCUMENT_START")>>
                             \o EventsOf(parser.root) \o <<Event("DOCUMENT_END")>>
       /\ (parser.pc \in DOMAIN Envelope /\ Len(consumed') = Len(consumed) + 1) =>
              LET event == consumed'[Len(consumed')]
              IN  IF event.ok /\ event.type = Envelope[parser.pc].type
                  THEN parser'.pc = Envelope[parser.pc].then
                  ELSE parser'.pc = "failed" /\ Failed(parser'.result, "ParseError")
    ]_vars

\* a second document started after the first one ended, and parse failed
SecondDocumentFailed ==
    /\ parser.pc = "failed" /\ Len(consumed) = 5
    /\ consumed[3].type = "SCALAR"
    /\ consumed[4] = Event("DOCUMENT_END") /\ consumed[5] = Event("DOCUMENT_START")

\* the tree an event list denotes by its nesting, read from position i: a
\* Scalar per scalar event, a Sequence of the nodes between a
\* sequence-start and its end, a Map of the (scalar key, node) pairs
\* between a mapping-start and its end; next is the position after the node
NoTree == [ok |-> FALSE, node |-> NodeOf("Null"), next |-> 0]

RECURSIVE TreeOf(_, _)
RECURSIVE ItemsOf(_, _, _)
RECURSIVE PairsOf(_, _, _)
ItemsOf(events, i, items) ==
    IF i > Len(events) THEN NoTree
    ELSE IF events[i] = Event("SEQUENCE_END")
         THEN [ok |-> TRUE, next |-> i + 1,
               node |-> [type |-> "Sequence", alt |-> "Sequence", val |-> items]]
    ELSE LET r == TreeOf(events, i)
         IN  IF ~r.ok THEN NoTree ELSE ItemsOf(events, r.next, Append(items, r.node))
PairsOf(events, i, pairs) ==
    IF i > Len(events) THEN NoTree
    ELSE IF events[i] = Event("MAPPING_END")
         THEN [ok |-> TRUE, next |-> i + 1,
               node |-> [type |-> "Map", alt |-> "Map", val |-> pairs]]
    ELSE IF ~(events[i].ok /\ events[i].type = "SCALAR") THEN NoTree
    ELSE LET r == TreeOf(events, i + 1)
         IN  IF ~r.ok THEN NoTree
             ELSE PairsOf(events, r.next,
                          Append(pairs, [key |-> events[i].value, value |-> r.node]))
TreeOf(events, i) ==
    IF i > Len(events) \/ ~events[i].ok THEN NoTree
    ELSE CASE events[i].type = "SCALAR" ->
                  [ok |-> TRUE, next |-> i + 1,
                   node |-> [type |-> "Scalar", alt |-> "Scalar", val |-> events[i].value]]
           [] events[i].type = "SEQUENCE_START" -> ItemsOf(events, i + 1, <<>>)
           [] events[i].type = "MAPPING_START" -> PairsOf(events, i + 1, <<>>)
           [] OTHER -> NoTree

\* C19: for a well-formed event stream the tree mirrors the nesting of the
\* events: a Sequence per sequence-start/end pair with the enclosed nodes
\* as its children in order (none for a pair with nothing between, and no
\* node for the end event), a Map per mapping-start/end pair with one
\* entry per key and the complete node after it.
TreeMirrorsNesting ==
    LET n == Len(consumed)
        r == TreeOf(consumed, 3)
    IN  (/\ n >= 3
         /\ consumed[1] = Event("STREAM_START") /\ consumed[2] = Event("DOCUMENT_START")
         /\ r.ok)
        => /\ n = r.next - 1 => parser.pc = "document_end" /\ parser.root = r.node
           /\ (n = r.next + 1 /\ consumed[n - 1] = Event("DOCUMENT_END")
                  /\ consumed[n] = Event("STREAM_END"))
                 => /\ parser.pc = "done"
                    /\ Returned(parser.result, r.node)

\* a mapping whose one value is a sequence of one scalar was parsed
ParsedSequenceInMapping ==
    /\ parser.pc = "done" /\ Len(consumed) = 10
    /\ parser.root.type = "Map" /\ Len(parser.root.val) = 1
    /\ parser.root.val[1].value.type = "Sequence"
    /\ Len(parser.root.val[1].value.val) = 1
    /\ parser.root.val[1].value.val[1].type = "Scalar"

\* C20: a scalar event yields a Scalar whose text is the event's content
\* unchanged, wherever it stands: as the root, as the next element of the
\* open sequence, as the key of the open mapping or as the value of its
\* pending key.  "30", "true", "null" and the empty text stay texts; a
\* number only comes out of as<int>().
ScalarTextVerbatim ==
    [][/\ (/\ parser.pc = "node" /\ Len(consumed') = Len(consumed) + 1
            /\ consumed'[Len(consumed')].ok
            /\ consumed'[Len(consumed')].type = "SCALAR") =>
              LET text   == consumed'[Len(consumed')].value
                  scalar == [type |-> "Scalar", alt |-> "Scalar", val |-> text]
                  d      == Len(parser.stack)
              IN  IF d = 0
                  THEN parser'.pc = "document_end" /\ parser'.root = scalar
                  ELSE /\ parser'.pc = "node" /\ Len(parser'.stack) = d
                       /\ CASE parser.stack[d].at = "child" ->
                                  parser'.stack[d].node.val =
                                      Append(parser.stack[d].node.val, scalar)
                             [] parser.stack[d].at = "key" ->
                                  /\ parser'.stack[d].key = text
                                  /\ parser'.stack[d].at = "value"
                                  /\ parser'.stack[d].node = parser.stack[d].node
                             [] parser.stack[d].at = "value" ->
                                  parser'.stack[d].node.val =
                                      Append(parser.stack[d].node.val,
                                             [key |-> parser.stack[d].key, value |-> scalar])
       /\ (last'.op = "as_string" /\ isScalar(last'.arg)) =>
              Returned(last'.res, last'.arg.val)
       /\ (last'.op = "as_int" /\ isScalar(last'.arg) /\ last'.arg.val = <<"3", "0">>) =>
              Returned(last'.res, 30)
    ]_vars

\* a mapping with the key `true` and the empty text as its value was parsed
ParsedTrueAndEmpty ==
    /\ parser.pc = "done" /\ parser.root.type = "Map" /\ Len(parser.root.val) = 1
    /\ parser.root.val[1].key = <<"t", "r", "u", "e">>
    /\ parser.root.val[1].value = NodeOf("Scalar")

\* the events the builder's state accounts for, in order: the envelope
\* events passed, and for every open parse call its start event, the
\* events of the children or entries it has attached and the key it holds
RECURSIVE ReplayFrames(_)
ReplayFrames(stack) ==
    IF stack = <<>> THEN <<>>
    ELSE LET f == Head(stack)
         IN  (IF f.fn = "parseSequenceEvent"
              THEN <<Event("SEQUENCE_START")>> \o EventsOfChildren(f.node.val)
              ELSE <<Event("MAPPING_START")>> \o EventsOfEntries(f.node.val)
                       \o (IF f.at = "value" THEN <<ScalarEvent(f.key)>> ELSE <<>>))
             \o ReplayFrames(Tail(stack))

Replay(p) ==
    LET head == <<Event("STREAM_START"), Event("DOCUMENT_START")>>
    IN  CASE p.pc = "stream_start"   -> <<>>
          [] p.pc = "document_start" -> <<Event("STREAM_START")>>
          [] p.pc = "node"           -> head \o ReplayFrames(p.stack)
          [] p.pc = "document_end"   -> head \o EventsOf(p.root)
          [] p.pc = "stream_end"     -> head \o EventsOf(p.root) \o <<Event("DOCUMENT_END")>>
          [] p.pc = "done"           -> head \o EventsOf(p.root)
                                            \o <<Event("DOCUMENT_END"), Event("STREAM_END")>>

\* C21: the builder pulls events forward one at a time.  Every step of a
\* running parse takes exactly one new event and leaves the events before
\* it as they were; what the builder holds accounts for every event
\* pulled exactly once and in stream order, none read twice or skipped;
\* and on success that is the whole stream from stream-start to stream-end.
EventsPulledOnce ==
    [][/\ ParserRunning(parser) =>
              /\ Len(consumed') = Len(consumed) + 1
              /\ SubSeq(consumed', 1, Len(consumed)) = consumed
              /\ parser' # parser
       /\ parser.pc \notin {"idle", "failed"} => consumed = Replay(parser)
       /\ parser'.pc \notin {"idle", "failed"} => consumed' = Replay(parser')
       /\ parser'.pc = "done" =>
              /\ consumed'[1] = Event("STREAM_START")
              /\ consumed'[Len(consumed')] = Event("STREAM_END")
              /\ \A i \in 1..(Len(consumed') - 1) : consumed'[i] # Event("STREAM_END")
    ]_vars

\* a parse that pulled ten events, the last one stream-end, succeeded
TenEventsPulled ==
    /\ parser.pc = "done" /\ Len(consumed) = 10
    /\ consumed[10] = Event("STREAM_END")
    /\ consumed = Replay(parser)

\* the indent levels a node is emitted at
Levels == 0..2

\* C22: a Sequence emitted at level L writes, for each child in order, the
\* line of 2*L spaces, `- `, the text and a newline for a Scalar child, or
\* the line of 2*L spaces and `-` followed by the child's own output at
\* level L+1 for a Sequence or Map child, and nothing else.
SequenceEmission ==
    (last.op = "emit" /\ last.arg.type = "Sequence" /\ ~HasNull(last.arg)) =>
        /\ Returned(last.res, SpecifiedItems(last.arg.val, 1, 0))
        /\ \A L \in Levels :
               Returned(emitSequence(last.arg, L), SpecifiedItems(last.arg.val, 1, L))

\* a sequence holding a sequence of one scalar was emitted
NestedSequenceEmitted ==
    /\ last.op = "emit" /\ last.arg.type = "Sequence"
    /\ Returned(last.res, <<"-", "\n", " ", " ", "-", " ", "a", "\n">>)

\* C23: a Map emitted at level L writes, for each entry in insertion
\* order, the line of 2*L spaces, the key, `: `, the text and a newline
\* for a Scalar value, or the line of 2*L spaces, the key and `:` followed
\* by the value's own output at level L+1 for a Sequence or Map value; the
\* root is emitted at level 0.
MapEmission ==
    (last.op = "emit" /\ last.arg.type = "Map" /\ ~HasNull(last.arg)) =>
        /\ Returned(last.res, SpecifiedEntries(last.arg.val, 1, 0))
        /\ \A L \in Levels :
               Returned(emitMapping(last.arg, L), SpecifiedEntries(last.arg.val, 1, L))

\* a map holding a map of one scalar entry was emitted
NestedMapEmitted ==
    /\ last.op = "emit" /\ last.arg.type = "Map"
    /\ Returned(last.res, <<"a", ":", "\n", " ", " ", "b", ":", " ", "7", "\n">>)

\* the kind of node an event starts
KindOfEvent == [SCALAR |-> "Scalar", SEQUENCE_START |-> "Sequence",
                MAPPING_START |-> "Map"]

\* C24: the kind of the root parse returns is decided by the first node
\* event alone: Scalar for a scalar event, Sequence for sequence-start, Map
\* for mapping-start; the empty Map the root is built as before the first
\* node event never shows in the result.
RootKindFollowsEvent ==
    /\ (parser.pc = "node" /\ parser.stack = <<>>) => parser.root = NodeOf("Map")
    /\ (parser.pc = "node" /\ parser.stack # <<>>) =>
           parser.stack[1].node.type = KindOfEvent[consumed[3].type]
    /\ parser.pc \in {"document_end", "stream_end", "done"} =>
           /\ consumed[3].type \in DOMAIN KindOfEvent
           /\ parser.root.type = KindOfEvent[consumed[3].type]
           /\ parser.root.alt = parser.root.type
    /\ parser.pc = "done" =>
           Returned(parser.result, parser.root)
    /\ (last.op = "parse" /\ last.res.ok) => root.type \in {"Scalar", "Sequence", "Map"}

\* a document that is one scalar was parsed: the root is a Scalar
ParsedScalarRoot ==
    /\ parser.pc = "done" /\ Len(consumed) = 5
    /\ consumed[3].type = "SCALAR"
    /\ parser.result.value = [type |-> "Scalar", alt |-> "Scalar", val |-> consumed[3].value]

\* C25: on every finite event stream parse finishes, with a tree or with
\* ParseError: a parse that was entered reaches its return and the caller
\* gets the result.  The open parse calls are never more than the events
\* pulled, and a stream that runs out inside an open container fails.
ParseTerminates ==
    /\ (parser.pc = "stream_start") ~> (parser.pc \in {"done", "failed"})
    /\ (parser.pc \in {"done", "failed"}) ~> (last.op = "parse")
    /\ [](ParserRunning(parser) => Len(parser.stack) <= Len(consumed))
    /\ []((parser.pc = "failed") => Failed(parser.result, "ParseError"))

\* the events ran out inside an open sequence and parse failed
RanOutInsideSequence ==
    /\ parser.pc = "failed" /\ Len(consumed) = 5
    /\ consumed[3] = Event("SEQUENCE_START")
    /\ consumed[4].type = "SCALAR"
    /\ consumed[5] = Event("NO_EVENT")

\* C26: a tree returned by a successful parse has no Null node at any
\* depth: the Null placeholders made for elements and values are filled
\* before they are attached; so emit on the result returns a text.
ParsedTreeHasNoNull ==
    /\ parser.pc = "done" =>
           /\ ~HasNull(parser.result.value)
           /\ emit(parser.result.value).ok
    /\ \A i \in 1..Len(parser.stack) : ~HasNull(parser.stack[i].node)
    /\ (last.op = "parse" /\ last.res.ok) => ~HasNull(root) /\ emit(root).ok

\* a mapping with two values was parsed and the result can be emitted
ParsedTwoValues ==
    /\ parser.pc = "done" /\ parser.root.type = "Map" /\ Len(parser.root.val) = 2
    /\ emit(parser.root).ok /\ Len(emit(parser.root).value) = 10

\* C27: for every tree built with the public operations that has no Null
\* node, emit returns a text: the EmissionError returns of emitScalar,
\* emitSequence and emitMapping for a payload that does not match the kind
\* are never taken.
NullFreeTreeEmits ==
    /\ (last.op = "emit" /\ ~HasNull(last.arg)) => last.res.ok
    /\ ~HasNull(root) => emit(root).ok
    /\ \A L \in Levels :
           /\ isScalar(Target) => emitScalar(Target).ok
           /\ (isSequence(Target) /\ ~HasNull(Target)) => emitSequence(Target, L).ok
           /\ (isMap(Target) /\ ~HasNull(Target)) => emitMapping(Target, L).ok

\* a map holding a sequence with an element, built by the caller, was
\* emitted
BuiltTreeEmitted ==
    /\ last.op = "emit" /\ last.res.ok /\ last.arg = root
    /\ root.type = "Map" /\ Len(root.val) = 1
    /\ root.val[1].value.type = "Sequence" /\ Len(root.val[1].value.val) = 1
    /\ ~HasNull(root)

\* C28: operator[] with a key never makes a duplicate key: when the keys
\* of every Map of the document are pairwise distinct, they are still
\* pairwise distinct after a map-index call, an assignment through the
\* reference it returned or any other operation of the caller; a second
\* map-index with the key the first one inserted finds that entry and
\* inserts nothing.
MapIndexKeepsKeysDistinct ==
    /\ [][(root' # root /\ last'.op # "parse" /\ KeysDistinct(root))
             => KeysDistinct(root')]_vars
    /\ [](isMap(Target) =>
             \A key \in Keys :
                 LET first  == MapIndex(Target, key)
                     second == MapIndex(first.node, key)
                 IN  /\ second.node = first.node
                     /\ second.at = first.at
                     /\ Len(first.node.val) =
                            Len(Target.val)
                            + (IF \E i \in 1..Len(Target.val) : Target.val[i].key = key
                               THEN 0 ELSE 1))

\* a map with two distinct keys was indexed with the second key, which was
\* found
IndexedSecondOfTwoKeys ==
    /\ last.op = "map_index" /\ last.res = 2 /\ ref = <<2>>
    /\ root.type = "Map" /\ Len(root.val) = 2
    /\ root.val[1].key # root.val[2].key
    /\ root.val[2].key = last.arg
    /\ root.val[2].value.type = "Scalar"

\* the digits of an integer literal without the sign and the leading zeros
LiteralDigits(s) ==
    StripLeadingZeros(IF s[1] = "-" THEN Tail(s) ELSE s)

\* the decimal digits a are a greater number than the digits b, neither
\* having a leading zero
DigitsAbove(a, b) ==
    \/ Len(a) > Len(b)
    \/ /\ Len(a) = Len(b)
       /\ \E i \in 1..Len(a) :
              /\ DigitVal(a[i]) > DigitVal(b[i])
              /\ \A j \in 1..(i - 1) : a[j] = b[j]

\* the integer literal s denotes a number below INT_MIN or above INT_MAX
OutOfIntRange(s) ==
    IF s[1] = "-"
    THEN DigitsAbove(LiteralDigits(s), <<"2", "1", "4", "7", "4", "8", "3", "6", "4", "8">>)
    ELSE DigitsAbove(LiteralDigits(s), <<"2", "1", "4", "7", "4", "8", "3", "6", "4", "7">>)

\* C29: as<int>() on a Scalar whose text is a well-formed decimal literal
\* below INT_MIN or above INT_MAX returns ScalarConversionError, never a
\* value (wrapped modulo 2^32, clamped to the nearest end, or zero); the
\* literals at the two ends and inside them are returned exactly.
OutOfRangeIsConversionError ==
    (last.op = "as_int" /\ isScalar(last.arg) /\ IsIntLiteral(last.arg.val)) =>
        IF OutOfIntRange(last.arg.val)
        THEN Failed(last.res, "ScalarConversionError")
        ELSE Returned(last.res, LiteralValue(last.arg.val))

\* the literal one above INT_MAX was read with as<int>() and refused
ReadIntMaxPlusOne ==
    /\ last.op = "as_int" /\ isScalar(last.arg)
    /\ last.arg.val = <<"2", "1", "4", "7", "4", "8", "3", "6", "4", "8">>
    /\ ~last.res.ok

IsEmptyContainer(n) == n.type \in {"Sequence", "Map"} /\ n.val = <<>>

Blank(k) == [i \in 1..k |-> " "]

\* the lines of the children i.. of a container at level L when every
\* child is a Scalar or an empty container: an empty container adds
\* nothing after the `key:` or `-` of its line
RECURSIVE FlatLines(_, _, _)
FlatLines(n, i, L) ==
    IF i > Len(n.val) THEN <<>>
    ELSE LET child == Children(n)[i]
             head  == IF n.type = "Map" THEN n.val[i].key \o <<":">> ELSE <<"-">>
             rest  == IF child.type = "Scalar" THEN <<" ">> \o child.val ELSE <<>>
         IN  Blank(2 * L) \o head \o rest \o <<"\n">> \o FlatLines(n, i + 1, L)

\* C30: an empty Sequence and an empty Map are emitted as the empty text
\* without error, at the root and at every level; an entry or element
\* whose value is an empty container writes its `key:` or `-` line and
\* nothing after it.
EmptyContainersEmitNothing ==
    (last.op = "emit" /\ last.arg.type \in {"Sequence", "Map"}) =>
        /\ IsEmptyContainer(last.arg) =>
               /\ Returned(last.res, <<>>)
               /\ \A L \in Levels : Returned(emitNode(last.arg, L), <<>>)
        /\ (\A i \in 1..Len(last.arg.val) :
                \/ Children(last.arg)[i].type = "Scalar"
                \/ IsEmptyContainer(Children(last.arg)[i])) =>
               /\ Returned(last.res, FlatLines(last.arg, 1, 0))
               /\ \A L \in Levels :
                      Returned(emitNode(last.arg, L), FlatLines(last.arg, 1, L))

\* a map whose two values are an empty sequence and an empty map was
\* emitted
EmptyValuesEmitted ==
    /\ last.op = "emit" /\ last.arg = root /\ root.type = "Map" /\ Len(root.val) = 2
    /\ root.val[1].value = NodeOf("Sequence")
    /\ root.val[2].value = NodeOf("Map")
    /\ Returned(last.res, root.val[1].key \o <<":", "\n">> \o root.val[2].key \o <<":", "\n">>)

====
